---- MODULE Spec2Model ----
(***************************************************************************)
(* State-machine model of ChessBoardWidget (src/chess_app.py): the board   *)
(* interaction machine made of selection, move animation, commit, history  *)
(* navigation and the king-check bounce.  The widget drives a python-chess *)
(* Board; the Board operations the widget calls (piece_at, legal_moves,    *)
(* push, reset, is_check, ...) are modelled by what they compute on an     *)
(* 8x8 board with side to move, castling rights and en-passant square.     *)
(***************************************************************************)
EXTENDS Integers, Sequences, FiniteSets

(***************************************************************************)
(* Values of the rules engine.                                             *)
(***************************************************************************)
\* chess.SQUARES: a1 = 0, b1 = 1, ..., h8 = 63.
SQUARES == 0 .. 63

\* None, where the code holds a square or None.
NoSquare == -1

\* None, where the code holds a piece or None (piece_at of an empty square).
NoPiece == "."

\* chess.WHITE / chess.BLACK are the booleans True / False.
WHITE == TRUE
BLACK == FALSE

\* Piece types (chess.PAWN ... chess.KING), named by their lower-case symbol.
PAWN == "p"
KNIGHT == "n"
BISHOP == "b"
ROOK == "r"
QUEEN == "q"
KING == "k"

\* None, where a move has no promotion.
NoPromotion == "none"

WhiteSymbols == {"P", "N", "B", "R", "Q", "K"}
BlackSymbols == {"p", "n", "b", "r", "q", "k"}

\* chess.square(file, rank), chess.square_file, chess.square_rank.
square(f, r) == r * 8 + f
square_file(s) == s % 8
square_rank(s) == s \div 8

\* Piece.color and Piece.piece_type of a piece symbol (the keys of piece_images).
piece_color(sym) == sym \in WhiteSymbols

piece_type(sym) ==
  CASE sym \in {"P", "p"} -> PAWN
    [] sym \in {"N", "n"} -> KNIGHT
    [] sym \in {"B", "b"} -> BISHOP
    [] sym \in {"R", "r"} -> ROOK
    [] sym \in {"Q", "q"} -> QUEEN
    [] sym \in {"K", "k"} -> KING
    [] OTHER -> NoPromotion

\* Piece(piece_type, color).symbol()
piece_symbol(t, c) ==
  CASE t = PAWN -> IF c THEN "P" ELSE "p"
    [] t = KNIGHT -> IF c THEN "N" ELSE "n"
    [] t = BISHOP -> IF c THEN "B" ELSE "b"
    [] t = ROOK -> IF c THEN "R" ELSE "r"
    [] t = QUEEN -> IF c THEN "Q" ELSE "q"
    [] t = KING -> IF c THEN "K" ELSE "k"
    [] OTHER -> NoPiece

\* chess.Move(from_square, to_square, promotion=None)
Move(f, t, p) == [from_square |-> f, to_square |-> t, promotion |-> p]

\* None, where the code holds a move or None (pending_move).
NoMove == Move(NoSquare, NoSquare, NoPromotion)

Abs(x) == IF x < 0 THEN -x ELSE x
Sign(x) == IF x > 0 THEN 1 ELSE IF x < 0 THEN -1 ELSE 0
MaxOf(a, b) == IF a > b THEN a ELSE b

(***************************************************************************)
(* chess.Board(): the starting position.                                   *)
(***************************************************************************)
BackRank == <<ROOK, KNIGHT, BISHOP, QUEEN, KING, BISHOP, KNIGHT, ROOK>>

StartPieces ==
  [s \in SQUARES |->
     CASE square_rank(s) = 0 -> piece_symbol(BackRank[square_file(s) + 1], WHITE)
       [] square_rank(s) = 1 -> "P"
       [] square_rank(s) = 6 -> "p"
       [] square_rank(s) = 7 -> piece_symbol(BackRank[square_file(s) + 1], BLACK)
       [] OTHER -> NoPiece]

\* Castling rights are the set of rook squares that may still castle;
\* stack is the number of moves on the board's move stack.
StartBoard ==
  [pieces |-> StartPieces, turn |-> WHITE, ep_square |-> NoSquare,
   castling_rights |-> {0, 7, 56, 63}, stack |-> 0]

\* Board.piece_at(square)
piece_at(b, sq) == b.pieces[sq]

(***************************************************************************)
(* Attacks.                                                                *)
(***************************************************************************)
\* The squares strictly between a and b on a shared rank, file or diagonal.
between(a, b) ==
  LET df == square_file(b) - square_file(a)
      dr == square_rank(b) - square_rank(a)
      n == MaxOf(Abs(df), Abs(dr))
  IN  IF a # b /\ (df = 0 \/ dr = 0 \/ Abs(df) = Abs(dr))
      THEN {square(square_file(a) + k * Sign(df), square_rank(a) + k * Sign(dr)) :
              k \in 1 .. (n - 1)}
      ELSE {}

\* Whether the path between two aligned squares is empty.
clear_path(pieces, a, b) == \A s \in between(a, b) : pieces[s] = NoPiece

\* Whether `to` is in Board.attacks_mask(from) for the piece standing on `from`.
attacks(pieces, from, to) ==
  LET p == pieces[from]
      df == Abs(square_file(to) - square_file(from))
      dr == square_rank(to) - square_rank(from)
  IN  /\ from # to
      /\ CASE p = "P" -> df = 1 /\ dr = 1
           [] p = "p" -> df = 1 /\ dr = -1
           [] p \in {"N", "n"} -> (df = 1 /\ Abs(dr) = 2) \/ (df = 2 /\ Abs(dr) = 1)
           [] p \in {"K", "k"} -> df <= 1 /\ Abs(dr) <= 1
           [] p \in {"B", "b"} -> df = Abs(dr) /\ clear_path(pieces, from, to)
           [] p \in {"R", "r"} -> (df = 0 \/ dr = 0) /\ clear_path(pieces, from, to)
           [] p \in {"Q", "q"} -> (df = 0 \/ dr = 0 \/ df = Abs(dr)) /\ clear_path(pieces, from, to)
           [] OTHER -> FALSE

\* Board.is_attacked_by(color, square)
is_attacked_by(pieces, color, sq) ==
  LET side == IF color THEN WhiteSymbols ELSE BlackSymbols
  IN  \E s \in SQUARES : pieces[s] \in side /\ attacks(pieces, s, sq)

\* Board.occupied: the squares that hold a piece.
occupied(pieces) == {s \in SQUARES : pieces[s] # NoPiece}

\* Board._attackers_mask(color, square, occupied): the squares whose piece of
\* `color` attacks `sq`, sliding pieces being stopped by the squares of
\* `occ` instead of the pieces on the board.
attackers_mask(pieces, color, sq, occ) ==
  LET side == IF color THEN WhiteSymbols ELSE BlackSymbols
      df(s) == Abs(square_file(sq) - square_file(s))
      dr(s) == square_rank(sq) - square_rank(s)
      open(s) == between(s, sq) \cap occ = {}
      hits(s) ==
        /\ s # sq
        /\ CASE pieces[s] = "P" -> df(s) = 1 /\ dr(s) = 1
             [] pieces[s] = "p" -> df(s) = 1 /\ dr(s) = -1
             [] pieces[s] \in {"N", "n"} ->
                  (df(s) = 1 /\ Abs(dr(s)) = 2) \/ (df(s) = 2 /\ Abs(dr(s)) = 1)
             [] pieces[s] \in {"K", "k"} -> df(s) <= 1 /\ Abs(dr(s)) <= 1
             [] pieces[s] \in {"B", "b"} -> df(s) = Abs(dr(s)) /\ open(s)
             [] pieces[s] \in {"R", "r"} -> (df(s) = 0 \/ dr(s) = 0) /\ open(s)
             [] pieces[s] \in {"Q", "q"} ->
                  (df(s) = 0 \/ dr(s) = 0 \/ df(s) = Abs(dr(s))) /\ open(s)
             [] OTHER -> FALSE
  IN  {s \in SQUARES : pieces[s] \in side /\ hits(s)}

\* chess.ray(a, b): the whole rank, file or diagonal through two aligned
\* squares, both included; empty when they are not aligned.
ray(a, b) ==
  LET sx == Sign(square_file(b) - square_file(a))
      sy == Sign(square_rank(b) - square_rank(a))
      aligned == \/ square_file(a) = square_file(b)
                 \/ square_rank(a) = square_rank(b)
                 \/ Abs(square_file(b) - square_file(a)) = Abs(square_rank(b) - square_rank(a))
  IN  IF a # b /\ aligned
      THEN {s \in SQUARES :
              (square_file(s) - square_file(a)) * sy = (square_rank(s) - square_rank(a)) * sx}
      ELSE {}

\* Board.king(color): the highest king square of the colour, or None.
king(pieces, color) ==
  LET sym == IF color THEN "K" ELSE "k"
      ks == {s \in SQUARES : pieces[s] = sym}
  IN  IF ks = {} THEN NoSquare ELSE CHOOSE s \in ks : \A o \in ks : o <= s

\* Board.is_check(): the king of the side to move is attacked.
is_check(b) ==
  LET k == king(b.pieces, b.turn)
  IN  k # NoSquare /\ is_attacked_by(b.pieces, ~b.turn, k)

(***************************************************************************)
(* Board.push(move).                                                       *)
(***************************************************************************)
\* The first and the last rank as sets of squares.
Rank1 == 0 .. 7
Rank8 == 56 .. 63

\* Board.clean_castling_rights(): with moves on the stack the rights are
\* returned as stored; on a fresh board they are the rights whose rook
\* stands on its corner and whose king stands on e1 / e8.
clean_castling_rights(b) ==
  LET w == IF b.pieces[4] = "K"
           THEN {s \in b.castling_rights \cap {0, 7} : b.pieces[s] = "R"}
           ELSE {}
      k == IF b.pieces[60] = "k"
           THEN {s \in b.castling_rights \cap {56, 63} : b.pieces[s] = "r"}
           ELSE {}
  IN  IF b.stack > 0 THEN b.castling_rights ELSE w \cup k

\* Move.__bool__ is false for the null move only: a1 to a1, no promotion.
is_null_move(m) == m.from_square = 0 /\ m.to_square = 0 /\ m.promotion = NoPromotion

\* Board._to_chess960(move): a king's two-square step from e1 / e8 is
\* rewritten as the king taking its own rook.
to_chess960(b, m) ==
  LET kingOn(s) == piece_type(b.pieces[s]) = KING
      rookOn(s) == piece_type(b.pieces[s]) = ROOK
  IN  IF m.from_square = 4 /\ kingOn(4)
      THEN IF m.to_square = 6 /\ ~rookOn(6) THEN Move(4, 7, NoPromotion)
           ELSE IF m.to_square = 2 /\ ~rookOn(2) THEN Move(4, 0, NoPromotion)
           ELSE m
      ELSE IF m.from_square = 60 /\ kingOn(60)
      THEN IF m.to_square = 62 /\ ~rookOn(62) THEN Move(60, 63, NoPromotion)
           ELSE IF m.to_square = 58 /\ ~rookOn(58) THEN Move(60, 56, NoPromotion)
           ELSE m
      ELSE m

\* push() asserts that the origin square of the move holds a piece; the
\* null move returns before the assertion.
push_asserts(b, m) == is_null_move(m) \/ b.pieces[m.from_square] # NoPiece

\* The board as push() leaves it when its assertion fails: the move is on
\* the stack, the en-passant square has been reset and the castling rights
\* cleaned, nothing has moved.
push_failed(b) ==
  [b EXCEPT !.ep_square = NoSquare, !.castling_rights = clean_castling_rights(b),
            !.stack = b.stack + 1]

\* The board after push(move), for a move whose origin holds a piece.  The
\* piece put on the target square takes the colour of the side to move.
\* The null move only passes the turn and resets the en-passant square.
push(b, m0) ==
  LET m == to_chess960(b, m0)
      from == m.from_square
      to == m.to_square
      turn == b.turn
      ptype == piece_type(b.pieces[from])
      p1 == [b.pieces EXCEPT ![from] = NoPiece]
      captured == p1[to]
      cr1 == clean_castling_rights(b) \ {from, to}
      cr2 == IF ptype = KING
             THEN cr1 \ (IF turn THEN Rank1 ELSE Rank8)
             ELSE IF piece_type(captured) = KING
             THEN IF turn /\ square_rank(to) = 7 THEN cr1 \ Rank8
                  ELSE IF ~turn /\ square_rank(to) = 0 THEN cr1 \ Rank1
                  ELSE cr1
             ELSE cr1
      diff == to - from
      up2 == ptype = PAWN /\ diff = 16 /\ square_rank(from) = 1
      down2 == ptype = PAWN /\ diff = -16 /\ square_rank(from) = 6
      newEp == IF up2 THEN from + 8 ELSE IF down2 THEN from - 8 ELSE NoSquare
      isEp == /\ ptype = PAWN /\ ~up2 /\ ~down2
              /\ b.ep_square # NoSquare /\ to = b.ep_square
              /\ Abs(diff) \in {7, 9} /\ captured = NoPiece
      epVictim == b.ep_square + (IF turn THEN -8 ELSE 8)
      p2 == IF isEp /\ epVictim \in SQUARES THEN [p1 EXCEPT ![epVictim] = NoPiece] ELSE p1
      placed == IF m.promotion # NoPromotion THEN m.promotion ELSE ptype
      castling == placed = KING /\ p2[to] # NoPiece /\ piece_color(p2[to]) = turn
      a_side == square_file(to) < square_file(from)
      kingTo == IF a_side THEN (IF turn THEN 2 ELSE 58) ELSE (IF turn THEN 6 ELSE 62)
      rookTo == IF a_side THEN (IF turn THEN 3 ELSE 59) ELSE (IF turn THEN 5 ELSE 61)
      p3 == IF castling
            THEN [[[p2 EXCEPT ![to] = NoPiece]
                       EXCEPT ![kingTo] = piece_symbol(KING, turn)]
                       EXCEPT ![rookTo] = piece_symbol(ROOK, turn)]
            ELSE [p2 EXCEPT ![to] = piece_symbol(placed, turn)]
  IN  IF is_null_move(m0)
      THEN [pieces |-> b.pieces, turn |-> ~turn, ep_square |-> NoSquare,
            castling_rights |-> clean_castling_rights(b), stack |-> b.stack + 1]
      ELSE [pieces |-> p3, turn |-> ~turn, ep_square |-> newEp, castling_rights |-> cr2,
            stack |-> b.stack + 1]

(***************************************************************************)
(* Legality: `move in board.legal_moves`.                                  *)
(***************************************************************************)
\* Board.is_en_passant(move)
is_en_passant(b, m) ==
  /\ b.ep_square # NoSquare
  /\ b.ep_square = m.to_square
  /\ piece_type(b.pieces[m.from_square]) = PAWN
  /\ Abs(m.to_square - m.from_square) \in {7, 9}
  /\ b.pieces[m.to_square] = NoPiece

\* Board.is_capture(move): the move touches a piece of the other side, or
\* is an en-passant capture.
is_capture(b, m) ==
  \/ \E s \in {m.from_square, m.to_square} :
        /\ m.from_square # m.to_square
        /\ b.pieces[s] # NoPiece
        /\ piece_color(b.pieces[s]) # b.turn
  \/ is_en_passant(b, m)

\* generate_pseudo_legal_ep: the pawn on m.from_square may capture en
\* passant on the en-passant square (an en-passant square a1 counts as none).
ep_pseudo_legal(b, m) ==
  /\ b.ep_square # NoSquare /\ b.ep_square # 0
  /\ m.to_square = b.ep_square
  /\ b.pieces[m.to_square] = NoPiece
  /\ b.pieces[m.from_square] = piece_symbol(PAWN, b.turn)
  /\ Abs(square_file(m.to_square) - square_file(m.from_square)) = 1
  /\ square_rank(m.to_square) - square_rank(m.from_square) = (IF b.turn THEN 1 ELSE -1)
  /\ square_rank(m.from_square) = (IF b.turn THEN 4 ELSE 3)
  /\ m.promotion = NoPromotion

\* The pieces a pawn is promoted to by a generated move.
PromotionPieces == {QUEEN, ROOK, BISHOP, KNIGHT}

\* The pawn moves of generate_pseudo_legal_moves and generate_pseudo_legal_ep,
\* for a pawn of the side to move on m.from_square.  A capture or single
\* step onto the first or last rank is generated once per promotion piece,
\* and without promotion elsewhere.
pawn_pseudo_legal(b, m) ==
  LET from == m.from_square
      to == m.to_square
      fwd == IF b.turn THEN 8 ELSE -8
      df == Abs(square_file(to) - square_file(from))
      dr == square_rank(to) - square_rank(from)
      diag == df = 1 /\ dr = (IF b.turn THEN 1 ELSE -1)
      enemyOn(s) == b.pieces[s] # NoPiece /\ piece_color(b.pieces[s]) # b.turn
      capture == diag /\ enemyOn(to)
      single == to = from + fwd /\ b.pieces[to] = NoPiece
      double == /\ to = from + 2 * fwd
                /\ from + fwd \in SQUARES
                /\ b.pieces[from + fwd] = NoPiece
                /\ b.pieces[to] = NoPiece
                /\ square_rank(to) \in (IF b.turn THEN {2, 3} ELSE {5, 4})
      promoted == IF square_rank(to) \in {0, 7}
                  THEN m.promotion \in PromotionPieces
                  ELSE m.promotion = NoPromotion
  IN  \/ (capture \/ single) /\ promoted
      \/ double /\ m.promotion = NoPromotion
      \/ ep_pseudo_legal(b, m)

\* Board._from_chess960(False, from, to): a king on e1 / e8 taking the rook
\* corner is rewritten as the king's two-square step.
from_chess960(b, m) ==
  LET kingOn(s) == piece_type(b.pieces[s]) = KING
  IN  IF m.promotion # NoPromotion THEN m
      ELSE IF m.from_square = 4 /\ kingOn(4)
      THEN IF m.to_square = 7 THEN Move(4, 6, NoPromotion)
           ELSE IF m.to_square = 0 THEN Move(4, 2, NoPromotion)
           ELSE m
      ELSE IF m.from_square = 60 /\ kingOn(60)
      THEN IF m.to_square = 63 THEN Move(60, 62, NoPromotion)
           ELSE IF m.to_square = 56 THEN Move(60, 58, NoPromotion)
           ELSE m
      ELSE m

\* Symmetric difference, the ^ of two square sets.
xor(a, b) == (a \ b) \cup (b \ a)

\* Whether generate_castling_moves() lets the king on `k0` castle with the
\* rook corner `c`: the squares the king and the rook cross and reach are
\* empty, and the king neither stands on, crosses nor reaches a square the
\* other side attacks.
castling_allowed(b, k0, c) ==
  LET first == IF b.turn THEN 0 ELSE 56
      a_side == c < k0
      king_to == first + (IF a_side THEN 2 ELSE 6)
      rook_to == first + (IF a_side THEN 3 ELSE 5)
      king_path == between(k0, king_to)
      rook_path == between(c, rook_to)
      occ == occupied(b.pieces)
      noKing == xor(occ, {k0})
      noKingRook == xor(noKing, {c})
  IN  /\ noKingRook \cap (king_path \cup rook_path \cup {king_to, rook_to}) = {}
      /\ \A s \in king_path \cup {k0} : attackers_mask(b.pieces, ~b.turn, s, noKing) = {}
      /\ attackers_mask(b.pieces, ~b.turn, king_to, xor(noKingRook, {rook_to})) = {}

\* generate_castling_moves(): the lowest king of the side to move on its
\* back rank, with every rook corner of clean_castling_rights() on that
\* rank; a king on e1 / e8 is given its two-square step.
castling_moves(b) ==
  LET backrank == IF b.turn THEN Rank1 ELSE Rank8
      ks == {s \in backrank : b.pieces[s] = piece_symbol(KING, b.turn)}
      k0 == CHOOSE s \in ks : \A o \in ks : s <= o
  IN  IF ks = {} THEN {}
      ELSE {from_chess960(b, Move(k0, c, NoPromotion)) :
              c \in {r \in clean_castling_rights(b) \cap backrank : castling_allowed(b, k0, r)}}

\* Whether the king move, rewritten by _from_chess960, is in
\* generate_castling_moves().
castling_pseudo_legal(b, m) ==
  from_chess960(b, Move(m.from_square, m.to_square, NoPromotion)) \in castling_moves(b)

\* Board.is_pseudo_legal(move)
is_pseudo_legal(b, m) ==
  LET from == m.from_square
      to == m.to_square
      p == b.pieces[from]
  IN  /\ ~(from = 0 /\ to = 0 /\ m.promotion = NoPromotion)
      /\ p # NoPiece
      /\ piece_color(p) = b.turn
      /\ m.promotion # NoPromotion =>
           /\ piece_type(p) = PAWN
           /\ square_rank(to) = (IF b.turn THEN 7 ELSE 0)
      /\ \/ piece_type(p) = KING /\ castling_pseudo_legal(b, m)
         \/ /\ ~(b.pieces[to] # NoPiece /\ piece_color(b.pieces[to]) = b.turn)
            /\ IF piece_type(p) = PAWN
               THEN pawn_pseudo_legal(b, m)
               ELSE attacks(b.pieces, from, to)

\* Board.is_castling(move)
is_castling(b, m) ==
  /\ piece_type(b.pieces[m.from_square]) = KING
  /\ \/ Abs(square_file(m.from_square) - square_file(m.to_square)) > 1
     \/ b.pieces[m.to_square] = piece_symbol(ROOK, b.turn)

\* Whether a piece of the side not to move stands on `s` with a type in `types`.
enemy_slider(b, s, types) ==
  /\ b.pieces[s] # NoPiece
  /\ piece_color(b.pieces[s]) # b.turn
  /\ piece_type(b.pieces[s]) \in types

\* Whether `s` is on the rank or file of `k` (straight), or on a diagonal of `k`.
on_straight(k, s) ==
  s # k /\ (square_file(s) = square_file(k) \/ square_rank(s) = square_rank(k))

on_diagonal(k, s) ==
  s # k /\ Abs(square_file(s) - square_file(k)) = Abs(square_rank(s) - square_rank(k))

\* The sliding pieces of the other side aligned with the square `k`.
snipers(b, k) ==
  {s \in SQUARES : \/ on_straight(k, s) /\ enemy_slider(b, s, {ROOK, QUEEN})
                   \/ on_diagonal(k, s) /\ enemy_slider(b, s, {BISHOP, QUEEN})}

\* Board._slider_blockers(king): the pieces of the side to move that stand
\* alone between the king and a sliding piece of the other side.
slider_blockers(b, k) ==
  LET occ == occupied(b.pieces)
      alone(s) == Cardinality(between(k, s) \cap occ) = 1
  IN  {x \in UNION {between(k, s) \cap occ : s \in {t \in snipers(b, k) : alone(t)}} :
         piece_color(b.pieces[x]) = b.turn}

\* Board.pin_mask(turn, square): the line on which the piece on `sq` is
\* pinned to the king of the side to move, or every square.
pin_mask(b, sq) ==
  LET k == king(b.pieces, b.turn)
      occ == occupied(b.pieces) \cup {sq}
      types == IF on_diagonal(k, sq) THEN {BISHOP, QUEEN} ELSE {ROOK, QUEEN}
      same_line(s) ==
        IF square_file(sq) = square_file(k) THEN s # k /\ square_file(s) = square_file(k)
        ELSE IF square_rank(sq) = square_rank(k) THEN s # k /\ square_rank(s) = square_rank(k)
        ELSE on_diagonal(k, s)
      pinners == {s \in SQUARES : /\ same_line(s)
                                  /\ enemy_slider(b, s, types)
                                  /\ between(s, k) \cap occ = {sq}}
  IN  IF k = NoSquare \/ ~(on_straight(k, sq) \/ on_diagonal(k, sq)) \/ pinners = {}
      THEN SQUARES
      ELSE ray(k, CHOOSE s \in pinners : \A o \in pinners : o <= s)

\* Board._ep_skewered(king, capturer): with the capturing pawn and the
\* captured pawn gone and the en-passant square filled, a rook or queen on
\* the king's rank, or a bishop or queen on its diagonals, attacks the king.
ep_skewered(b, k, capturer) ==
  LET last_double == b.ep_square + (IF b.turn THEN -8 ELSE 8)
      occupancy == (occupied(b.pieces) \ {last_double, capturer}) \cup {b.ep_square}
  IN  \/ \E s \in SQUARES : /\ s # k /\ square_rank(s) = square_rank(k)
                            /\ enemy_slider(b, s, {ROOK, QUEEN})
                            /\ between(k, s) \cap occupancy = {}
      \/ \E s \in SQUARES : /\ on_diagonal(k, s)
                            /\ enemy_slider(b, s, {BISHOP, QUEEN})
                            /\ between(k, s) \cap occupancy = {}

\* Board._is_safe(king, blockers, move)
is_safe(b, k, m) ==
  IF m.from_square = k
  THEN is_castling(b, m) \/ ~is_attacked_by(b.pieces, ~b.turn, m.to_square)
  ELSE IF is_en_passant(b, m)
  THEN m.to_square \in pin_mask(b, m.from_square) /\ ~ep_skewered(b, k, m.from_square)
  ELSE m.from_square \notin slider_blockers(b, k) \/ k \in ray(m.from_square, m.to_square)

\* Whether the move is in Board._generate_evasions(king, checkers, ...): a
\* step of the checked king off the lines of the sliding checkers, or, with
\* a single checker, a move of another piece that captures it or lands
\* between it and the king, or the en-passant capture of a checking pawn.
is_evasion(b, k, checkers, m) ==
  LET sliders == {c \in checkers : piece_type(b.pieces[c]) \in {BISHOP, ROOK, QUEEN}}
      attacked == UNION {ray(k, c) \ {c} : c \in sliders}
      to == m.to_square
      king_step == /\ m.from_square = k
                   /\ m.promotion = NoPromotion
                   /\ to # k
                   /\ Abs(square_file(to) - square_file(k)) <= 1
                   /\ Abs(square_rank(to) - square_rank(k)) <= 1
                   /\ ~(b.pieces[to] # NoPiece /\ piece_color(b.pieces[to]) = b.turn)
                   /\ to \notin attacked
      checker == CHOOSE c \in checkers : \A o \in checkers : o <= c
      target == between(k, checker) \cup checkers
      last_double == b.ep_square + (IF b.turn THEN -8 ELSE 8)
  IN  \/ king_step
      \/ /\ Cardinality(checkers) = 1
         /\ \/ /\ piece_type(b.pieces[m.from_square]) # KING
               /\ to \in target
               /\ b.pieces[m.from_square] # NoPiece
               /\ piece_color(b.pieces[m.from_square]) = b.turn
               /\ ~(b.pieces[to] # NoPiece /\ piece_color(b.pieces[to]) = b.turn)
               /\ IF piece_type(b.pieces[m.from_square]) = PAWN
                  THEN pawn_pseudo_legal(b, m)
                  ELSE m.promotion = NoPromotion /\ attacks(b.pieces, m.from_square, to)
            \/ /\ b.ep_square # NoSquare /\ b.ep_square # 0
               /\ b.ep_square \notin target
               /\ last_double = checker
               /\ ep_pseudo_legal(b, m)

\* Board.is_into_check(move): with a king of the side to move on the board
\* (the highest one counts), the move is no evasion of a check, or it is
\* not safe for that king.
is_into_check(b, m) ==
  LET k == king(b.pieces, b.turn)
      checkers == attackers_mask(b.pieces, ~b.turn, k, occupied(b.pieces))
  IN  /\ k # NoSquare
      /\ \/ checkers # {} /\ ~is_evasion(b, k, checkers, m)
         \/ ~is_safe(b, k, m)

\* Board.is_legal(move), what `move in board.legal_moves` evaluates.
is_legal(b, m) == is_pseudo_legal(b, m) /\ ~is_into_check(b, m)

\* The promotions a generated move can carry.
Promotions == {NoPromotion, QUEEN, ROOK, BISHOP, KNIGHT}

\* The moves iterating board.legal_moves yields that leave `from` (castling
\* is yielded as the king's two-square step only).
legal_moves_from(b, from) ==
  {m \in {Move(from, to, p) : to \in SQUARES, p \in Promotions} :
     is_legal(b, m) /\ from_chess960(b, m) = m}

\* board.legal_moves
legal_moves(b) ==
  UNION {legal_moves_from(b, from) :
           from \in {s \in SQUARES : b.pieces[s] # NoPiece /\ piece_color(b.pieces[s]) = b.turn}}

\* Board.is_checkmate(), Board.is_stalemate()
is_checkmate(b) == is_check(b) /\ legal_moves(b) = {}
is_stalemate(b) == ~is_check(b) /\ legal_moves(b) = {}

\* Board.has_insufficient_material(color)
has_insufficient_material(b, color) ==
  LET own == {s \in SQUARES : b.pieces[s] # NoPiece /\ piece_color(b.pieces[s]) = color}
      other == {s \in SQUARES : b.pieces[s] # NoPiece /\ piece_color(b.pieces[s]) # color}
      typeOn(s) == piece_type(b.pieces[s])
      all == own \cup other
      dark(s) == (square_file(s) + square_rank(s)) % 2 = 0
      bishops == {s \in all : typeOn(s) = BISHOP}
  IN  IF \E s \in own : typeOn(s) \in {PAWN, ROOK, QUEEN} THEN FALSE
      ELSE IF \E s \in own : typeOn(s) = KNIGHT
      THEN Cardinality(own) <= 2 /\ \A s \in other : typeOn(s) \in {KING, QUEEN}
      ELSE IF \E s \in own : typeOn(s) = BISHOP
      THEN /\ (\A s \in bishops : dark(s)) \/ (\A s \in bishops : ~dark(s))
           /\ \A s \in all : typeOn(s) \notin {PAWN, KNIGHT}
      ELSE TRUE

\* Board.is_insufficient_material()
is_insufficient_material(b) ==
  has_insufficient_material(b, WHITE) /\ has_insufficient_material(b, BLACK)

(***************************************************************************)
(* Bounds of the model and the inputs explored.                            *)
(***************************************************************************)
\* Moves are attempted only while move_history is shorter than this.
MaxMoves == 4

\* At most this many arrow keys are pressed while a move animation runs.
MaxKeysWhileAnimating == 1

\* At most this many image files load when the others fail, or fail when
\* the others load.
MaxOddImages == 0

\* The squares the pointer clicks: e2 e4 e5, d1 h5, f7 f5, g7 g6.
ClickSquares == {12, 28, 36, 3, 39, 53, 37, 54, 46}

\* self.square_size
square_size == 60

\* The pointer position (event.x(), event.y()) of a click in the middle of a square.
ClickPoint(sq) ==
  <<square_file(sq) * square_size + square_size \div 2,
    (7 - square_rank(sq)) * square_size + square_size \div 2>>

ClickPoints == {ClickPoint(sq) : sq \in ClickSquares}

\* The squares the pointer clicks in the games that end in four plies:
\* f2 f3, g2 g4, e7 e5, d8 h4.
MateClickSquares == {13, 21, 14, 30, 52, 36, 59, 31}

\* Scalars driven by the animation framework, in hundredths.
ProgressStart == 0
ProgressEnd == 100
ProgressValues == {0, 50, 100}
ScaleOne == 100
BounceValues == {100, 150}
KingBounceValues == {100, 120}

(***************************************************************************)
(* The widget.                                                             *)
(***************************************************************************)
VARIABLES
  board,               \* self.board
  selected_square,     \* self.selected_square
  move_history,        \* self.move_history
  current_move_index,  \* self.current_move_index
  animating,           \* self.animating
  anim_progress,       \* self._anim_progress
  pending_move,        \* self.pending_move
  anim_start_point,    \* self.anim_start_point
  anim_end_point,      \* self.anim_end_point
  anim,                \* self.anim: "None", "Running" or "Stopped"
  bounce_scale,        \* self._bounce_scale
  bounceAnim,          \* self.bounceAnim: "None", "Running" or "Stopped"
  king_bounce_scale,   \* self._king_bounce_scale
  kingBounceAnim,      \* self.kingBounceAnim: "None" or "Running"
  raised,              \* the exception the last handler raised, or "none"
  dialog,              \* the message box the last handler showed, or "none"
  effects,             \* what finishAnimation did, in order, if it was the last handler
  piece_pixmaps,       \* self.piece_pixmaps: the piece symbols whose image was loaded
  keys_while_animating \* arrow keys pressed so far while self.animating

vars ==
  <<board, selected_square, move_history, current_move_index, animating,
    anim_progress, pending_move, anim_start_point, anim_end_point, anim,
    bounce_scale, bounceAnim, king_bounce_scale, kingBounceAnim, raised, dialog,
    effects, piece_pixmaps, keys_while_animating>>

gameVars == <<board, move_history, current_move_index>>
animVars == <<animating, anim_progress, pending_move, anim_start_point, anim_end_point, anim>>
bounceVars == <<bounce_scale, bounceAnim>>
kingVars == <<king_bounce_scale, kingBounceAnim>>

\* The keys of piece_images.
PieceSymbols == WhiteSymbols \cup BlackSymbols

\* loadPieceImages decides file by file (pixmap.isNull()) whether the image
\* of a piece is kept, so any subset of the symbols can result.  The loads
\* explored are those in which the files load, or fail, together but for
\* at most MaxOddImages of them.
PixmapLoads ==
  {s \in SUBSET PieceSymbols :
     \/ Cardinality(s) <= MaxOddImages
     \/ Cardinality(PieceSymbols \ s) <= MaxOddImages}

\* ChessBoardWidget.__init__
Init ==
  /\ board = StartBoard
  /\ selected_square = NoSquare
  /\ move_history = <<>>
  /\ current_move_index = 0
  /\ animating = FALSE
  /\ anim_progress = 0
  /\ pending_move = NoMove
  /\ anim_start_point = <<0, 0>>
  /\ anim_end_point = <<0, 0>>
  /\ anim = "None"
  /\ bounce_scale = ScaleOne
  /\ bounceAnim = "None"
  /\ king_bounce_scale = ScaleOne
  /\ kingBounceAnim = "None"
  /\ raised = "none"
  /\ dialog = "none"
  /\ effects = <<>>
  /\ piece_pixmaps \in PixmapLoads
  /\ keys_while_animating = 0

\* Mutant of captured_square: the circle is always drawn on the target square.
captured_square_is_target(b, m) == m.to_square

\* paintEvent, capture targets: the square circled for the capture m, which
\* for an en-passant capture lies 8 below the target of a white piece and
\* 8 above the target of any other.
captured_square(b, m) ==
  IF is_en_passant(b, m)
  THEN IF piece_at(b, m.from_square) # NoPiece /\ piece_color(piece_at(b, m.from_square)) = WHITE
       THEN m.to_square - 8
       ELSE m.to_square + 8
  ELSE m.to_square

\* paintEvent, capture targets: killable_squares for the selection `sel`,
\* computed only with a square selected and no animation in flight.
killable_squares(b, sel, an) ==
  IF sel # NoSquare /\ ~an
  THEN {captured_square(b, m) : m \in {c \in legal_moves_from(b, sel) : is_capture(b, c)}}
  ELSE {}

\* paintEvent reaches startKingBounce when it draws a king of the side to
\* move while the board is in check: the piece must have a pixmap, and a
\* piece on the origin of the pending move, or a piece of the other side on
\* its target, is skipped while animating.
paint_draws_checked_king(b, an, pm, pixmaps) ==
  /\ is_check(b)
  /\ \E s \in SQUARES :
        /\ b.pieces[s] = piece_symbol(KING, b.turn)
        /\ ~(an /\ pm # NoMove /\ s = pm.from_square)
        /\ ~(an /\ pm # NoMove /\ s = pm.to_square /\ piece_color(b.pieces[s]) # b.turn)
        /\ b.pieces[s] \in pixmaps

\* startKingBounce acts only when self.kingBounceAnim is None.
king_bounce_absent(kba) == kba = "None"

\* paintEvent, delivered by the event loop some time after a handler has
\* called update() (or when the window is exposed), other queued events
\* first.  Its only effect on the widget is startKingBounce, which creates
\* and starts the looping animation; the start sets kingBounceScale to its
\* start value.  A start by the repaint that follows finishAnimation is
\* added to `effects`.
paintEvent ==
  /\ IF /\ king_bounce_absent(kingBounceAnim)
        /\ paint_draws_checked_king(board, animating, pending_move, piece_pixmaps)
     THEN /\ kingBounceAnim' = "Running"
          /\ king_bounce_scale' = ScaleOne
          /\ effects' = IF effects # <<>> THEN Append(effects, "startKingBounce")
                                          ELSE effects
     ELSE UNCHANGED <<kingVars, effects>>
  /\ UNCHANGED <<gameVars, selected_square, animVars, bounceVars, raised, dialog,
                 piece_pixmaps, keys_while_animating>>

\* resetBoardToIndex: board.reset() and push of move_history[:index].
RECURSIVE replay(_, _)
replay(history, index) ==
  IF index = 0 THEN StartBoard
  ELSE push(replay(history, index - 1), history[index])

\* The key presses explored: those outside an animation, and a bounded
\* number of those inside one.
KeyPressed ==
  /\ animating => keys_while_animating < MaxKeysWhileAnimating
  /\ keys_while_animating' = IF animating THEN keys_while_animating + 1
                                          ELSE keys_while_animating

\* Mutant of can_step_back: the first move of the history cannot be undone.
can_step_back_above_one(index) == index > 1

\* The guards of keyPressEvent.
can_step_back(index) == index > 0

\* Mutant of can_step_forward: the last move of the history cannot be redone.
can_step_forward_before_last(index, history) == index + 1 < Len(history)

can_step_forward(index, history) == index < Len(history)

\* keyPressEvent with Qt.Key_Left
KeyLeft ==
  /\ KeyPressed
  /\ raised' = "none"
  /\ dialog' = "none"
  /\ effects' = <<>>
  /\ UNCHANGED piece_pixmaps
  /\ UNCHANGED <<selected_square, move_history, animVars, bounceVars>>
  /\ IF can_step_back(current_move_index)
     THEN /\ current_move_index' = current_move_index - 1
          /\ board' = replay(move_history, current_move_index - 1)
          /\ UNCHANGED kingVars
     ELSE UNCHANGED <<current_move_index, board, kingVars>>

\* keyPressEvent with Qt.Key_Right
KeyRight ==
  /\ KeyPressed
  /\ raised' = "none"
  /\ dialog' = "none"
  /\ effects' = <<>>
  /\ UNCHANGED piece_pixmaps
  /\ UNCHANGED <<selected_square, move_history, animVars, bounceVars>>
  /\ IF can_step_forward(current_move_index, move_history)
     THEN /\ current_move_index' = current_move_index + 1
          /\ board' = replay(move_history, current_move_index + 1)
          /\ UNCHANGED kingVars
     ELSE UNCHANGED <<current_move_index, board, kingVars>>

\* Mutant of click_rejected: the early return of mousePressEvent is missing.
click_never_rejected(an) == FALSE

\* mousePressEvent returns at once while self.animating.
click_rejected(an) == an

\* The square under the pointer: chess.square(x // square_size, 7 - y // square_size).
clicked_square(x, y) == square(x \div square_size, 7 - (y \div square_size))

\* Mutant of selectable: any piece can be selected, whatever its colour.
selectable_any_piece(b, sq) == piece_at(b, sq) # NoPiece

\* trySelect: the clicked square holds a piece of the side to move.
selectable(b, sq) == piece_at(b, sq) # NoPiece /\ piece_color(piece_at(b, sq)) = b.turn

\* The move a click on `sq` builds from the selected square: a pawn that
\* reaches the first or the last rank promotes to a queen.
attempted_move(b, sel, sq) ==
  IF piece_type(piece_at(b, sel)) = PAWN /\ square_rank(sq) \in {0, 7}
  THEN Move(sel, sq, QUEEN)
  ELSE Move(sel, sq, NoPromotion)

\* Mutant of move_accepted: the move is only tested for pseudo-legality.
move_accepted_if_pseudo_legal(b, m) == is_pseudo_legal(b, m)

\* `move in self.board.legal_moves`
move_accepted(b, m) == is_legal(b, m)

\* The pixel origin of a square: (file * square_size, (7 - rank) * square_size).
square_point(sq) == <<square_file(sq) * square_size, (7 - square_rank(sq)) * square_size>>

\* startAnimation(move)
startAnimation(m) ==
  /\ pending_move' = m
  /\ anim_start_point' = square_point(m.from_square)
  /\ anim_end_point' = square_point(m.to_square)
  /\ animating' = TRUE
  /\ anim_progress' = ProgressStart
  /\ anim' = "Running"

\* mousePressEvent with the pointer at (x, y)
mousePressEvent(x, y) ==
  LET sq == clicked_square(x, y)
      m == attempted_move(board, selected_square, sq)
  IN  /\ dialog' = "none"
      /\ effects' = <<>>
      /\ UNCHANGED piece_pixmaps
      /\ UNCHANGED keys_while_animating
      /\ IF click_rejected(animating)
         THEN /\ raised' = "none"
              /\ UNCHANGED <<gameVars, selected_square, animVars, bounceVars, kingVars>>
         ELSE IF selected_square = NoSquare
         THEN /\ raised' = "none"
              /\ UNCHANGED <<gameVars, animVars>>
              /\ IF selectable(board, sq)
                 THEN /\ selected_square' = sq
                      /\ bounceAnim' = "Running"
                      /\ bounce_scale' = ScaleOne
                      /\ UNCHANGED kingVars
                 ELSE UNCHANGED <<selected_square, bounceVars, kingVars>>
         ELSE IF piece_at(board, selected_square) = NoPiece
         THEN /\ raised' = "AttributeError"
              /\ UNCHANGED <<gameVars, selected_square, animVars, bounceVars, kingVars>>
         ELSE /\ raised' = "none"
              /\ UNCHANGED <<gameVars, bounceVars>>
              /\ IF move_accepted(board, m)
                 THEN /\ Len(move_history) < MaxMoves
                      /\ startAnimation(m)
                 ELSE UNCHANGED animVars
              /\ selected_square' = NoSquare
              /\ UNCHANGED kingVars

\* stopKingBounce: the animation object kba, the scale kbs.
stopKingBounce(kba, kbs) ==
  IF kba # "None"
  THEN [anim |-> "None", scale |-> ScaleOne]
  ELSE [anim |-> kba, scale |-> kbs]

\* finishAnimation stops the king bounce when the new position is not check.
king_bounce_after_commit(b, kba, kbs) ==
  IF ~is_check(b) THEN stopKingBounce(kba, kbs) ELSE [anim |-> kba, scale |-> kbs]

\* Mutant of committed_history: the redo branch is kept.
committed_history_keeping_redo(history, index, m) == Append(history, m)

\* The history after a commit at `index`: the redo branch is dropped.
committed_history(history, index, m) ==
  Append(IF index < Len(history) THEN SubSeq(history, 1, index) ELSE history, m)

\* Mutant of checkGameStatus: no message box is ever shown.
checkGameStatus_silent(b) == "none"

\* checkGameStatus: the message box shown, if any.
checkGameStatus(b) ==
  IF is_checkmate(b) THEN "Checkmate!"
  ELSE IF is_stalemate(b) THEN "Stalemate!"
  ELSE IF is_insufficient_material(b) THEN "Draw by insufficient material."
  ELSE "none"

\* The statements of finishAnimation that act on the widget, in the order
\* they run on the pushed board b: the push, the history and cursor update,
\* the two flags, stopKingBounce when b is not check, and checkGameStatus.
\* update() only schedules the repaint, whose startKingBounce comes later.
finish_effects(b) ==
  <<"board.push", "move_history", "current_move_index", "pending_move", "animating">>
  \o (IF ~is_check(b) THEN <<"stopKingBounce">> ELSE <<>>)
  \o <<"checkGameStatus">>

\* finishAnimation, the slot of self.anim.finished.  board.push raises its
\* assertion when the origin of the pending move is empty on the board the
\* move is pushed to; the handler then ends there.
finishAnimation ==
  /\ anim = "Running"
  /\ anim_progress = ProgressEnd
  /\ anim' = "Stopped"
  /\ UNCHANGED keys_while_animating
  /\ UNCHANGED <<selected_square, anim_progress, anim_start_point, anim_end_point, bounceVars>>
  /\ IF ~push_asserts(board, pending_move)
     THEN /\ raised' = "AssertionError"
          /\ dialog' = "none"
          /\ effects' = <<>>
          /\ UNCHANGED piece_pixmaps
          /\ board' = push_failed(board)
          /\ UNCHANGED <<move_history, current_move_index, pending_move, animating, kingVars>>
     ELSE LET b == push(board, pending_move)
              k == king_bounce_after_commit(b, kingBounceAnim, king_bounce_scale)
          IN  /\ raised' = "none"
              /\ board' = b
              /\ move_history' = committed_history(move_history, current_move_index, pending_move)
              /\ current_move_index' = Len(move_history')
              /\ pending_move' = NoMove
              /\ animating' = FALSE
              /\ kingBounceAnim' = k.anim
              /\ king_bounce_scale' = k.scale
              /\ dialog' = checkGameStatus(b)
              /\ effects' = finish_effects(b)
              /\ UNCHANGED piece_pixmaps

\* A step of self.anim: the anim_progress setter stores the value and calls update().
AnimTick ==
  /\ anim = "Running"
  /\ \E v \in ProgressValues :
        /\ v > anim_progress
        /\ anim_progress' = v
  /\ raised' = "none"
  /\ dialog' = "none"
  /\ effects' = <<>>
  /\ UNCHANGED piece_pixmaps
  /\ UNCHANGED keys_while_animating
  /\ UNCHANGED <<gameVars, selected_square, animating, pending_move, anim_start_point,
                 anim_end_point, anim, bounceVars>>
  /\ UNCHANGED kingVars

\* A step of self.bounceAnim: the bounceScale setter stores the value and calls update().
BounceTick ==
  /\ bounceAnim = "Running"
  /\ \E v \in BounceValues : bounce_scale' = v
  /\ raised' = "none"
  /\ dialog' = "none"
  /\ effects' = <<>>
  /\ UNCHANGED piece_pixmaps
  /\ UNCHANGED keys_while_animating
  /\ UNCHANGED <<gameVars, selected_square, animVars, bounceAnim>>
  /\ UNCHANGED kingVars

\* The one-shot selection bounce ends on its end value.
BounceFinished ==
  /\ bounceAnim = "Running"
  /\ bounceAnim' = "Stopped"
  /\ bounce_scale' = ScaleOne
  /\ raised' = "none"
  /\ dialog' = "none"
  /\ effects' = <<>>
  /\ UNCHANGED piece_pixmaps
  /\ UNCHANGED keys_while_animating
  /\ UNCHANGED <<gameVars, selected_square, animVars>>
  /\ UNCHANGED kingVars

\* A step of the looping self.kingBounceAnim: the kingBounceScale setter
\* stores the value and calls update().
KingBounceTick ==
  /\ kingBounceAnim = "Running"
  /\ \E v \in KingBounceValues : king_bounce_scale' = v
  /\ kingBounceAnim' = kingBounceAnim
  /\ raised' = "none"
  /\ dialog' = "none"
  /\ effects' = <<>>
  /\ UNCHANGED piece_pixmaps
  /\ UNCHANGED keys_while_animating
  /\ UNCHANGED <<gameVars, selected_square, animVars, bounceVars>>

Click == \E p \in ClickPoints : mousePressEvent(p[1], p[2])

Next ==
  \/ Click
  \/ KeyLeft
  \/ KeyRight
  \/ finishAnimation
  \/ AnimTick
  \/ BounceTick
  \/ BounceFinished
  \/ KingBounceTick
  \/ paintEvent

Spec == Init /\ [][Next]_vars

\* The widget driven by clicks on MateClickSquares, which let a game reach
\* checkmate (1.f3 e5 2.g4 Qh4#) within MaxMoves.
MateClick == \E sq \in MateClickSquares : mousePressEvent(ClickPoint(sq)[1], ClickPoint(sq)[2])

MateNext ==
  \/ MateClick
  \/ KeyLeft
  \/ KeyRight
  \/ finishAnimation
  \/ AnimTick
  \/ BounceTick
  \/ BounceFinished
  \/ KingBounceTick
  \/ paintEvent

MateSpec == Init /\ [][MateNext]_vars

\* finishAnimation can run: self.anim is running and has reached its end value.
finished_pending == anim = "Running" /\ anim_progress = ProgressEnd

\* Weak fairness of finishAnimation, written with its enabling condition
\* finished_pending: the finished() signal of an animation that has reached
\* its end value is delivered.
FinishedDelivered == []<>(~finished_pending) \/ []<><<finishAnimation>>_vars

\* The Qt event loop delivers the timer ticks of a running QPropertyAnimation
\* and its finished() signal: a tick or a finish that stays possible happens.
FairSpec == Spec /\ WF_vars(AnimTick) /\ FinishedDelivered

(***************************************************************************)
(* Properties.                                                             *)
(***************************************************************************)
\* A step that runs keyPressEvent with the Left or the Right key.
NavigationStep == KeyLeft \/ KeyRight

\* A step in which finishAnimation commits the pending move.
CommitStep == pending_move # NoMove /\ pending_move' = NoMove

\* C1: while a move animation is in flight, a back or forward request
\* leaves cursor, position and move history unchanged.
C1_NavigationRejectedWhileAnimating ==
  [][(animating /\ NavigationStep) =>
       UNCHANGED <<current_move_index, board, move_history>>]_vars

\* C2: every move in the move history was legal in the position obtained
\* by replaying the moves before it, so the move committed when an
\* animation finishes is legal in the position current at the commit.
C2_CommittedMovesLegal ==
  \A i \in 1 .. Len(move_history) :
     is_legal(replay(move_history, i - 1), move_history[i])

\* C3: no operation raises an error, and whenever a click can arrive with a
\* square selected the position has a piece on the selected square.
C3_NoOperationFails ==
  /\ raised = "none"
  /\ (selected_square # NoSquare /\ ~animating) =>
        piece_at(board, selected_square) # NoPiece

\* C4: between events the board position is the replay of
\* move_history[0:cursor] from the initial position, and the cursor lies
\* in 0 .. len(move_history).
C4_PositionIsReplay ==
  /\ current_move_index \in 0 .. Len(move_history)
  /\ board = replay(move_history, current_move_index)

\* C5: a commit of move m with history h and cursor c leaves the history
\* h[0:c] followed by m and the cursor at c + 1 = len(history): the moves at
\* index >= c are dropped and the prefix is kept.
C5_CommitTruncatesAndAppends ==
  [][CommitStep =>
       /\ Len(move_history') = current_move_index + 1
       /\ current_move_index' = current_move_index + 1
       /\ current_move_index' = Len(move_history')
       /\ move_history'[current_move_index + 1] = pending_move
       /\ \A i \in 1 .. current_move_index : move_history'[i] = move_history[i]]_vars

\* C5 witness: an animation is about to commit with a redo branch behind
\* the cursor (moves at index >= cursor exist), reached by plain navigation.
C5_Witness ==
  /\ anim = "Running"
  /\ anim_progress = ProgressEnd
  /\ push_asserts(board, pending_move)
  /\ keys_while_animating = 0
  /\ current_move_index > 0
  /\ current_move_index < Len(move_history)
  /\ move_history[current_move_index + 1] # pending_move

\* C6: a move attempt starts the animation only for a move that is legal
\* in the current position; for any other move the animator stays idle and
\* no move is pending.
C6_OnlyLegalMovesAnimate ==
  [][/\ (~animating /\ animating') =>
          /\ selected_square # NoSquare
          /\ pending_move'.from_square = selected_square
          /\ is_legal(board, pending_move')
     /\ \A sq \in ClickSquares :
          (/\ mousePressEvent(ClickPoint(sq)[1], ClickPoint(sq)[2])
           /\ ~animating
           /\ selected_square # NoSquare
           /\ piece_at(board, selected_square) # NoPiece
           /\ ~is_legal(board, attempted_move(board, selected_square, sq)))
          => (~animating' /\ pending_move' = NoMove)]_vars

\* C6 witness: an animation runs for a pending move that is legal on the
\* board it was validated on, while the side to move is in check (some
\* pseudo-legal moves of that position are not legal).
C6_Witness ==
  /\ animating
  /\ keys_while_animating = 0
  /\ is_check(board)
  /\ is_legal(board, pending_move)
  /\ \E s \in ClickSquares, t \in ClickSquares :
        /\ is_pseudo_legal(board, Move(s, t, NoPromotion))
        /\ ~is_legal(board, Move(s, t, NoPromotion))

\* C7: while animating, a click changes nothing: not the selection, the
\* pending move, the animation, the history, the cursor or the position.
C7_ClicksIgnoredWhileAnimating ==
  [][(animating /\ Click) =>
       UNCHANGED <<selected_square, gameVars, animVars, bounceVars, kingVars>>]_vars

\* C7 witness: an animation runs while a clickable square holds a piece of
\* the side to move, which a click would select were it not ignored.
C7_Witness ==
  /\ animating
  /\ anim = "Running"
  /\ \E sq \in ClickSquares : selectable(board, sq)

\* C8: after a back or forward request is handled the selection is empty.
C8_NavigationClearsSelection ==
  [][NavigationStep => selected_square' = NoSquare]_vars

\* C9: whenever the position is not check, no king bounce is running and
\* the king bounce scale is 1.0.
C9_NoKingBounceOutOfCheck ==
  ~is_check(board) => (kingBounceAnim = "None" /\ king_bounce_scale = ScaleOne)

\* C10: each maximal run of check states sees exactly one king bounce
\* start.  No instance is running as the run begins (the start of the run
\* is still to come), a start has taken effect by the time the run ends
\* (asked only when the image of the checked king is loaded, so that the
\* king is drawn), and while check persists a running instance is neither
\* replaced nor restarted by paints or ticks.
C10_OneKingBounceStartPerCheck ==
  [][/\ (~is_check(board) /\ is_check(board')) => kingBounceAnim' = "None"
     /\ (is_check(board) /\ ~is_check(board')
           /\ piece_symbol(KING, board.turn) \in piece_pixmaps) =>
          kingBounceAnim = "Running"
     /\ (is_check(board) /\ is_check(board') /\ kingBounceAnim = "Running") =>
          /\ kingBounceAnim' = "Running"
          /\ paintEvent => UNCHANGED kingVars]_vars

\* C11: with no animation in flight and cursor > 0, a back request followed
\* at once by a forward request restores position, cursor and move history:
\* in the state a back step leaves, the forward request is accepted and sets
\* the cursor and the position it computes to the values before the back
\* step, and neither touches the history.
C11_BackThenForwardRestores ==
  [][(~animating /\ can_step_back(current_move_index) /\ KeyLeft) =>
       /\ move_history' = move_history
       /\ can_step_forward(current_move_index', move_history')
       /\ current_move_index' + 1 = current_move_index
       /\ replay(move_history', current_move_index' + 1) = board]_vars

\* C11 witness: no animation is in flight and the cursor stands behind the
\* end of a history of at least two moves with at least one move applied,
\* the state a back step from cursor >= 2 leaves and a forward step undoes.
C11_Witness ==
  /\ ~animating
  /\ keys_while_animating = 0
  /\ Len(move_history) >= 2
  /\ current_move_index >= 1
  /\ current_move_index < Len(move_history)
  /\ board = replay(move_history, current_move_index)
  /\ board # replay(move_history, current_move_index + 1)

\* A step that starts a move animation: a move becomes the pending move, or
\* a new QPropertyAnimation on anim_progress is started.
AnimationStarts ==
  \/ (pending_move' # pending_move /\ pending_move' # NoMove)
  \/ (anim' = "Running" /\ anim # "Running")

\* C12: between events a move is pending exactly when the animator is
\* animating, and an animation is started only while no move is in flight,
\* so a second animation never starts before the first has committed.
C12_OneMoveInFlight ==
  /\ [](pending_move # NoMove <=> animating)
  /\ [][AnimationStarts => (~animating /\ pending_move = NoMove /\ anim # "Running")]_vars

\* C12 witness: a second animation is in flight after an earlier move was
\* committed, and a click that would select a piece can arrive during it.
C12_Witness ==
  /\ animating
  /\ pending_move # NoMove
  /\ anim = "Running"
  /\ Len(move_history) >= 1
  /\ \E sq \in ClickSquares : sq # pending_move.from_square /\ selectable(board, sq)

\* C13: every started animation completes and commits its move: under the
\* fair delivery of timer ticks an animating widget eventually returns to
\* idle, the animation ends only by a commit, and the commit leaves the
\* pending move as the last applied move, move_history[cursor - 1].
C13_AnimationCommits ==
  /\ (animating ~> ~animating)
  /\ [][(animating /\ ~animating') => CommitStep]_vars
  /\ [][CommitStep =>
          /\ current_move_index' = Len(move_history')
          /\ move_history'[current_move_index'] = pending_move]_vars

\* C14: a back request with cursor > 0 lowers the cursor by exactly one and
\* a forward request with cursor < len(move_history) raises it by exactly
\* one, both leaving the move history as it was; a back request at cursor 0
\* and a forward request at cursor = len(move_history) leave cursor,
\* position and move history unchanged.
C14_StepByOne ==
  [][/\ (KeyLeft /\ current_move_index > 0) =>
          (current_move_index' = current_move_index - 1 /\ move_history' = move_history)
     /\ (KeyLeft /\ current_move_index = 0) =>
          UNCHANGED <<current_move_index, board, move_history>>
     /\ (KeyRight /\ current_move_index < Len(move_history)) =>
          (current_move_index' = current_move_index + 1 /\ move_history' = move_history)
     /\ (KeyRight /\ current_move_index = Len(move_history)) =>
          UNCHANGED <<current_move_index, board, move_history>>]_vars

\* C14 witness: the cursor stands at 0 in front of a history of at least two
\* moves: back requests have stepped through the whole history one move at
\* a time, the next back request is refused and a forward request is not.
C14_Witness ==
  /\ current_move_index = 0
  /\ Len(move_history) >= 2
  /\ board = StartBoard
  /\ ~animating

\* C15: a click made with a square selected ends with the selection empty,
\* whether or not the move was legal; when the move is not legal, move
\* history, cursor, position, pending move and animator state are unchanged.
C15_AttemptClearsSelection ==
  [][\A sq \in ClickSquares :
        (/\ mousePressEvent(ClickPoint(sq)[1], ClickPoint(sq)[2])
         /\ ~animating
         /\ selected_square # NoSquare)
        => /\ selected_square' = NoSquare
           /\ ~is_legal(board, attempted_move(board, selected_square, sq)) =>
                 UNCHANGED <<move_history, current_move_index, board, pending_move,
                             animating, anim>>]_vars

\* C16: with no animation in flight and no square selected, a click on a
\* square that is empty or holds a piece of the side not to move leaves the
\* selection empty and starts no selection bounce; a click on a square that
\* holds a piece of the side to move selects that square and starts the
\* one-shot selection bounce.
C16_SelectionOnlyOnOwnPiece ==
  [][\A sq \in ClickSquares :
        (/\ mousePressEvent(ClickPoint(sq)[1], ClickPoint(sq)[2])
         /\ ~animating
         /\ selected_square = NoSquare)
        => IF /\ board.pieces[sq] # NoPiece
              /\ (board.pieces[sq] \in WhiteSymbols) = (board.turn = WHITE)
           THEN /\ selected_square' = sq
                /\ bounceAnim' = "Running"
                /\ bounce_scale' = ScaleOne
           ELSE /\ selected_square' = NoSquare
                /\ UNCHANGED bounceVars]_vars

\* C16 witness: after a committed move a piece of the side to move (Black)
\* is selected and its selection bounce runs, while other clickable squares
\* are empty or hold pieces of the side not to move.
C16_Witness ==
  /\ ~animating
  /\ Len(move_history) >= 1
  /\ board.turn = BLACK
  /\ selected_square # NoSquare
  /\ board.pieces[selected_square] \in BlackSymbols
  /\ bounceAnim = "Running"
  /\ \E sq \in ClickSquares : board.pieces[sq] \in WhiteSymbols
  /\ \E sq \in ClickSquares : board.pieces[sq] = NoPiece

\* C20: in every reachable state a selected square holds a piece of the
\* side to move in the current position.
C20_SelectionHoldsOwnPiece ==
  selected_square # NoSquare =>
     /\ board.pieces[selected_square] # NoPiece
     /\ (board.pieces[selected_square] \in WhiteSymbols) = (board.turn = WHITE)

\* C17: for every legal en-passant capture from the selected square the
\* killable square is the captured pawn's square (file of the destination,
\* rank of the origin: destination - 8 for a White mover, destination + 8
\* for a Black mover) and not the destination; for every other legal capture
\* the killable square is the destination.
C17_EnPassantKillableSquare ==
  (selected_square # NoSquare /\ ~animating) =>
    LET killable == killable_squares(board, selected_square, animating)
    IN  \A m \in legal_moves_from(board, selected_square) :
          is_capture(board, m) =>
            IF is_en_passant(board, m)
            THEN LET pawn_sq == square(square_file(m.to_square), square_rank(m.from_square))
                 IN  /\ captured_square(board, m) = pawn_sq
                     /\ pawn_sq = (IF board.turn = WHITE THEN m.to_square - 8
                                                         ELSE m.to_square + 8)
                     /\ pawn_sq \in killable
                     /\ m.to_square \notin killable
            ELSE /\ captured_square(board, m) = m.to_square
                 /\ m.to_square \in killable

\* C17 witness: a pawn is selected that can legally capture en passant on
\* the en-passant square of the position, with no animation in flight.
C17_Witness ==
  /\ ~animating
  /\ selected_square # NoSquare
  /\ board.ep_square # NoSquare
  /\ is_en_passant(board, Move(selected_square, board.ep_square, NoPromotion))
  /\ is_legal(board, Move(selected_square, board.ep_square, NoPromotion))
  /\ killable_squares(board, selected_square, animating) # {}

\* C18: when an animation finishes the effects occur in the order commit of
\* the pending move, clearing of pending_move, evaluation of the game
\* status, re-evaluation of the king bounce (a start or a stop), all before
\* any other event: from the end of finishAnimation on, the king bounce
\* runs exactly when the side to move is in check.
C18_FinishEffectsInOrder ==
  effects # <<>> =>
    LET at(x) == {i \in DOMAIN effects : effects[i] = x}
        before(x, y) == \A i \in at(x), j \in at(y) : i < j
    IN  /\ at("board.push") # {}
        /\ at("pending_move") # {}
        /\ at("checkGameStatus") # {}
        /\ before("board.push", "pending_move")
        /\ before("pending_move", "checkGameStatus")
        /\ before("checkGameStatus", "stopKingBounce")
        /\ before("checkGameStatus", "startKingBounce")
        /\ is_check(board) => kingBounceAnim = "Running"
        /\ ~is_check(board) => kingBounceAnim = "None"

\* C19: the step that commits a move surfaces exactly one notification when
\* the new position is checkmate, stalemate or insufficient material
\* (checkmate before stalemate before insufficient material) and none
\* otherwise; a back or forward request never surfaces a notification.
C19_TerminalNotification ==
  [][/\ CommitStep =>
          dialog' = (IF is_check(board') /\ legal_moves(board') = {} THEN "Checkmate!"
                     ELSE IF legal_moves(board') = {} THEN "Stalemate!"
                     ELSE IF is_insufficient_material(board')
                          THEN "Draw by insufficient material."
                     ELSE "none")
     /\ NavigationStep => dialog' = "none"]_vars

\* C19 witness: a commit has just produced a checkmate position and the
\* checkmate notification is up.
C19_Witness ==
  /\ dialog = "Checkmate!"
  /\ effects # <<>>
  /\ ~animating
  /\ current_move_index = Len(move_history)
  /\ is_check(board)
  /\ legal_moves(board) = {}

====
